---- MODULE Spec2Model ----
(***************************************************************************)
(* Model of test_gopls_workspace.py: the LSP frame builder                 *)
(* create_lsp_message, the probe test_workspace_recognition (one           *)
(* subprocess per call, three frames, half-close, bounded drain, stderr    *)
(* classification) and the __main__ runner that calls it twice.            *)
(*                                                                         *)
(* Text is a sequence of Unicode code points.  A pipe is a bounded FIFO.   *)
(* The collaborator subprocess is an arbitrary program: it may read its    *)
(* input, write to its output and error streams (blocking when the pipe    *)
(* is full) and exit, in any order.                                        *)
(***************************************************************************)
EXTENDS Integers, Sequences, FiniteSets, TLC

(***************************************************************************)
(* Bounds of the model.                                                    *)
(***************************************************************************)
\* longest string value inside params (code points)
MaxStrLen == 2
\* longest captured error text of the classifier specification (chunks)
MaxTextChunks == 2
\* largest workspace URI, in pipe units added to a frame per occurrence
MaxUriUnits == 1
\* capacity of the stdin pipe, in units
StdinCap == 4
\* capacity of the stderr pipe, in chunks
ErrCap == 1
\* capacity of the stdout pipe, in chunks
OutCap == 1

\* the collaborator writes at most one chunk more than the pipe holds
MaxErrChunks == ErrCap + 1
MaxOutChunks == OutCap + 1

(***************************************************************************)
(* Text helpers.                                                           *)
(***************************************************************************)
RECURSIVE Flatten(_)
Flatten(ss) == IF ss = <<>> THEN <<>> ELSE Head(ss) \o Flatten(Tail(ss))

\* str.lower() on the letters used here: A-Z map to a-z
LowerChar(c) == IF c >= 65 /\ c <= 90 THEN c + 32 ELSE c

lower(s) == [i \in 1..Len(s) |-> LowerChar(s[i])]

\* the Python operator `m in s` on strings
Contains(s, m) ==
    \E i \in 0..(Len(s) - Len(m)) : SubSeq(s, i + 1, i + Len(m)) = m

\* number of bytes of one code point in UTF-8
Utf8Len(c) == IF c < 128 THEN 1 ELSE IF c < 2048 THEN 2 ELSE IF c < 65536 THEN 3 ELSE 4

RECURSIVE ByteLen(_)
ByteLen(s) == IF s = <<>> THEN 0 ELSE Utf8Len(Head(s)) + ByteLen(Tail(s))

\* decimal digits of a natural number, as str(n) prints them
RECURSIVE Decimal(_)
Decimal(n) == IF n < 10 THEN <<48 + n>> ELSE Decimal(n \div 10) \o <<48 + (n % 10)>>

\* the number a digit string denotes
RECURSIVE ParseInt(_)
ParseInt(d) ==
    IF d = <<>> THEN 0 ELSE 10 * ParseInt(SubSeq(d, 1, Len(d) - 1)) + (d[Len(d)] - 48)

HexDigit(n) == IF n < 10 THEN 48 + n ELSE 87 + n

\* "\uXXXX" with four lower-case hex digits
UEscape(n) ==
    <<92, 117, HexDigit((n \div 4096) % 16), HexDigit((n \div 256) % 16),
      HexDigit((n \div 16) % 16), HexDigit(n % 16)>>

(***************************************************************************)
(* Message Codec: create_lsp_message.                                      *)
(***************************************************************************)
\* json.dumps escaping of one character: with ensure_ascii (the default)
\* everything outside " " .. "~" is escaped, without it only the controls
EscapeChar(ensure_ascii, c) ==
    IF c = 34 THEN <<92, 34>>
    ELSE IF c = 92 THEN <<92, 92>>
    ELSE IF c = 10 THEN <<92, 110>>
    ELSE IF c = 13 THEN <<92, 114>>
    ELSE IF c = 9 THEN <<92, 116>>
    ELSE IF c = 8 THEN <<92, 98>>
    ELSE IF c = 12 THEN <<92, 102>>
    ELSE IF c < 32 THEN UEscape(c)
    ELSE IF c <= 126 \/ ~ensure_ascii THEN <<c>>
    ELSE IF c < 65536 THEN UEscape(c)
    ELSE UEscape(55296 + (((c - 65536) \div 1024) % 1024))
         \o UEscape(56320 + ((c - 65536) % 1024))

\* a JSON string literal
DumpString(ensure_ascii, s) ==
    <<34>> \o Flatten([i \in 1..Len(s) |-> EscapeChar(ensure_ascii, s[i])]) \o <<34>>

\* the members of a JSON object, given as <<key, string value>> pairs, in
\* order, with the default separators ", " and ": "
RECURSIVE DumpMembers(_, _)
DumpMembers(ensure_ascii, ps) ==
    IF ps = <<>> THEN <<>>
    ELSE DumpString(ensure_ascii, ps[1][1]) \o <<58, 32>>
         \o DumpString(ensure_ascii, ps[1][2])
         \o (IF Len(ps) > 1 THEN <<44, 32>> ELSE <<>>)
         \o DumpMembers(ensure_ascii, Tail(ps))

DumpObject(ensure_ascii, ps) == <<123>> \o DumpMembers(ensure_ascii, ps) \o <<125>>

\* msg is [method, params, hasId, id]; the members come out in insertion
\* order: jsonrpc, method, params and, when present, id
DumpMsg(ensure_ascii, msg) ==
    <<123, 34, 106, 115, 111, 110, 114, 112, 99, 34, 58, 32, 34, 50, 46, 48, 34,
      44, 32, 34, 109, 101, 116, 104, 111, 100, 34, 58, 32>>
    \o DumpString(ensure_ascii, msg.method)
    \o <<44, 32, 34, 112, 97, 114, 97, 109, 115, 34, 58, 32>>
    \o DumpObject(ensure_ascii, msg.params)
    \o (IF msg.hasId THEN <<44, 32, 34, 105, 100, 34, 58, 32>> \o Decimal(msg.id) ELSE <<>>)
    \o <<125>>

\* json.dumps(msg, ensure_ascii=False)
json_dumps_raw(msg) == DumpMsg(FALSE, msg)

json_dumps(msg) == DumpMsg(TRUE, msg)

NoId == -1

\* the id member written only for an id that is true (`if id:`)
create_lsp_message_truthy_id(method, params, id) ==
    LET msg == [method |-> method, params |-> params,
                hasId |-> (id # NoId /\ id # 0), id |-> id]
        content == json_dumps(msg)
    IN  <<67, 111, 110, 116, 101, 110, 116, 45, 76, 101, 110, 103, 116, 104, 58, 32>>
        \o Decimal(Len(content)) \o <<13, 10, 13, 10>> \o content

\* id = NoId stands for id=None
create_lsp_message(method, params, id) ==
    LET msg == [method |-> method, params |-> params,
                hasId |-> (id # NoId), id |-> id]
        content == json_dumps(msg)
    IN  <<67, 111, 110, 116, 101, 110, 116, 45, 76, 101, 110, 103, 116, 104, 58, 32>>
        \o Decimal(Len(content)) \o <<13, 10, 13, 10>> \o content

\* --- reading a frame back, as a receiver does ---
CRLFCRLF == <<13, 10, 13, 10>>

\* index of the first character of the blank line that ends the header
HeaderEnd(frame) ==
    CHOOSE i \in 1..Len(frame) :
        /\ i + 3 <= Len(frame)
        /\ SubSeq(frame, i, i + 3) = CRLFCRLF
        /\ \A j \in 1..(i - 1) : SubSeq(frame, j, j + 3) # CRLFCRLF

DeclaredLength(frame) == ParseInt(SubSeq(frame, 17, HeaderEnd(frame) - 1))

FrameBody(frame) == SubSeq(frame, HeaderEnd(frame) + 4, Len(frame))

\* --- decoding the body, as a JSON reader does ---
HexVal(c) == IF c <= 57 THEN c - 48 ELSE IF c >= 97 THEN c - 87 ELSE c - 55

Hex4(s, i) ==
    4096 * HexVal(s[i]) + 256 * HexVal(s[i + 1]) + 16 * HexVal(s[i + 2]) + HexVal(s[i + 3])

\* the character a two-character escape stands for
Unescape(e) ==
    CASE e = 110 -> 10 [] e = 114 -> 13 [] e = 116 -> 9 [] e = 98 -> 8
      [] e = 102 -> 12 [] OTHER -> e

IsHighSurrogate(n) == n >= 55296 /\ n <= 56319
IsLowSurrogate(n) == n >= 56320 /\ n <= 57343

\* the string literal whose first character after the quote is s[i]; an
\* escaped high surrogate directly followed by an escaped low surrogate is
\* one character
RECURSIVE ScanStr(_, _, _)
ScanStr(s, i, acc) ==
    IF s[i] = 34 THEN [val |-> acc, next |-> i + 1]
    ELSE IF s[i] # 92 THEN ScanStr(s, i + 1, Append(acc, s[i]))
    ELSE IF s[i + 1] # 117 THEN ScanStr(s, i + 2, Append(acc, Unescape(s[i + 1])))
    ELSE IF /\ IsHighSurrogate(Hex4(s, i + 2))
            /\ i + 11 <= Len(s)
            /\ s[i + 6] = 92
            /\ s[i + 7] = 117
            /\ IsLowSurrogate(Hex4(s, i + 8))
    THEN ScanStr(s, i + 12,
                 Append(acc, 65536 + (Hex4(s, i + 2) - 55296) * 1024
                                   + (Hex4(s, i + 8) - 56320)))
    ELSE ScanStr(s, i + 6, Append(acc, Hex4(s, i + 2)))

RECURSIVE SkipWs(_, _)
SkipWs(s, i) == IF i <= Len(s) /\ s[i] \in {32, 9, 10, 13} THEN SkipWs(s, i + 1) ELSE i

RECURSIVE ScanInt(_, _, _)
ScanInt(s, i, acc) ==
    IF i <= Len(s) /\ s[i] >= 48 /\ s[i] <= 57
    THEN ScanInt(s, i + 1, 10 * acc + (s[i] - 48))
    ELSE [val |-> acc, next |-> i]

\* the value that starts at s[i]: a string, an object (its members as
\* <<key, value>> pairs in order) or a number
RECURSIVE ParseValue(_, _)
RECURSIVE ParseMembers(_, _, _)
ParseValue(s, i) ==
    IF s[i] = 34
    THEN LET r == ScanStr(s, i + 1, <<>>)
         IN  [kind |-> "str", val |-> r.val, next |-> r.next]
    ELSE IF s[i] = 123
    THEN IF s[SkipWs(s, i + 1)] = 125
         THEN [kind |-> "obj", val |-> <<>>, next |-> SkipWs(s, i + 1) + 1]
         ELSE ParseMembers(s, SkipWs(s, i + 1), <<>>)
    ELSE LET r == ScanInt(s, i, 0)
         IN  [kind |-> "int", val |-> r.val, next |-> r.next]

\* the members of an object from the opening quote of a key at s[i]
ParseMembers(s, i, acc) ==
    LET k == ScanStr(s, i + 1, <<>>)
        colon == SkipWs(s, k.next)
        v == ParseValue(s, SkipWs(s, colon + 1))
        j == SkipWs(s, v.next)
        more == Append(acc, <<k.val, [kind |-> v.kind, val |-> v.val]>>)
    IN  IF s[j] = 44
        THEN ParseMembers(s, SkipWs(s, j + 1), more)
        ELSE [kind |-> "obj", val |-> more, next |-> j + 1]

json_loads(body) == ParseValue(body, 1)

(***************************************************************************)
(* Result Classifier: the if / elif / else of test_workspace_recognition.  *)
(***************************************************************************)
GO_MOD == <<103, 111, 46, 109, 111, 100>>
NO_GO_MOD == <<110, 111, 32, 103, 111, 46, 109, 111, 100>>
NOT_FOUND == <<110, 111, 116, 32, 102, 111, 117, 110, 100>>

\* the branches taken in the other order
classify_not_found_first(text) ==
    IF Contains(lower(text), NO_GO_MOD) \/ Contains(lower(text), NOT_FOUND)
    THEN "not-recognized"
    ELSE IF Contains(lower(text), GO_MOD) THEN "recognized"
    ELSE "inconclusive"

\* the chain without its final else: no branch taken, no verdict
classify_without_else(text) ==
    IF Contains(lower(text), GO_MOD) THEN "recognized"
    ELSE IF Contains(lower(text), NO_GO_MOD) \/ Contains(lower(text), NOT_FOUND)
    THEN "not-recognized"
    ELSE "undefined"

\* the markers looked for in the text as captured, not lower-cased
classify_no_lower(text) ==
    IF Contains(text, GO_MOD) THEN "recognized"
    ELSE IF Contains(text, NO_GO_MOD) \/ Contains(text, NOT_FOUND)
    THEN "not-recognized"
    ELSE "inconclusive"

\* text is the captured stderr
classify(text) ==
    IF Contains(lower(text), GO_MOD) THEN "recognized"
    ELSE IF Contains(lower(text), NO_GO_MOD) \/ Contains(lower(text), NOT_FOUND)
    THEN "not-recognized"
    ELSE "inconclusive"

(***************************************************************************)
(* What the collaborator can write to its error stream: chunk k of Chunk.  *)
(***************************************************************************)
Chunk ==
    << <<110, 111, 32, 103, 111, 46, 109, 111, 100, 32, 102, 111, 117, 110, 100>>,  \* "no go.mod found"
       <<117, 115, 105, 110, 103, 32, 103, 111, 46, 109, 111, 100, 32, 97, 116,
         32, 47, 119, 111, 114, 107, 115, 112, 97, 99, 101>>,                         \* "using go.mod at /workspace"
       <<102, 105, 108, 101, 32, 110, 111, 116, 32, 102, 111, 117, 110, 100>>,       \* "file not found"
       <<115, 116, 97, 114, 116, 105, 110, 103>>,                                     \* "starting"
       <<78, 79, 84, 32, 70, 79, 85, 78, 68>>,                                        \* "NOT FOUND"
       <<71, 111, 46, 77, 111, 100>>,                                                 \* "Go.Mod"
       <<110, 111, 116, 32>>,                                                         \* "not "
       <<102, 111, 117, 110, 100>> >>                                                 \* "found"

\* the chunks the collaborator of a scenario chooses from: one text for
\* each branch of the classifier
ErrVocab == {1, 3, 4}
\* the chunks the classifier specification builds its texts from
AllChunks == 1..Len(Chunk)

\* the text a sequence of chunks makes
TextOf(cs) == Flatten([i \in 1..Len(cs) |-> Chunk[cs[i]]])

\* what the collaborator writes to its output stream: copies of chunk 2
OutChunk == 2
OutText(n) == [k \in 1..n |-> OutChunk]

\* process.returncode: NoCode stands for None
NoCode == -1
ExitCodes == {0, 1}

\* a verdict read from both streams together
verdict_line_any_stream(out, err, rc) == classify(TextOf(err \o out))

\* the verdict line printed for the result of communicate: of stdout,
\* stderr and the exit code, which are all at hand, only stderr is used
verdict_line(out, err, rc) == classify(TextOf(err))

(***************************************************************************)
(* The probe and its runner.                                               *)
(***************************************************************************)
\* the two calls of __main__
NumScenarios == 2
Scenarios == 1..NumScenarios

\* the frames with didOpen written before initialized
FramesSwapped(u) ==
    << [method |-> "initialize", id |-> 1, units |-> 1 + 2 * u],
       [method |-> "textDocument/didOpen", id |-> NoId, units |-> 1 + u],
       [method |-> "initialized", id |-> NoId, units |-> 1] >>

\* The three frames of a probe, in the order of the writes.  `units` is the
\* room the frame takes in the stdin pipe: one unit for the fixed text, and
\* u units for every occurrence of a workspace URI of size u (initialize
\* carries rootUri and workspaceFolders[0].uri, didOpen carries
\* textDocument.uri, initialized carries none).
Frames(u) ==
    << [method |-> "initialize", id |-> 1, units |-> 1 + 2 * u],
       [method |-> "initialized", id |-> NoId, units |-> 1],
       [method |-> "textDocument/didOpen", id |-> NoId, units |-> 1 + u] >>

\* one unit of a frame, as it travels through the pipe
UnitOf(f) == [method |-> f.method, id |-> f.id]

None == [stream |-> "none", chunk |-> 0]

VARIABLES
    pc,             \* position of the harness
    scen,           \* the scenario being run, 1..NumScenarios
    uri,            \* size of the current scenario's workspace URI
    process,        \* per scenario: "unbound", "running", "exited"
    termRequested,  \* per scenario: process.terminate() was called
    stdinClosed,    \* process.stdin.close() was called
    frame,          \* index of the frame being written (1..3)
    wrem,           \* units of that frame still to be written
    written,        \* units the harness has written, in order
    stdinPipe,      \* units in the stdin pipe
    received,       \* units the subprocess has read, in order
    errPipe,        \* chunks in the stderr pipe
    outPipe,        \* number of chunks in the stdout pipe
    errWritten,     \* chunks the subprocess has written to stderr
    outWritten,     \* chunks the subprocess has written to stdout
    blocked,        \* the write the subprocess is blocked in, or None
    stderr,         \* chunks captured from the error stream
    stdout,         \* number of chunks captured from the output stream
    exc,            \* the exception being raised, or "none"
    errorsPrinted,  \* per scenario: the exception of the "Error:" line
    verdicts,       \* per scenario: the verdict lines printed
    summary,        \* the closing banner was printed
    flushRaises,    \* Popen.communicate() flushes stdin even when it is closed
    returncode,     \* process.returncode once communicate has returned, or NoCode
    cIn,            \* codec specification: the arguments
    cFrame,         \* codec specification: the frame returned
    kText,          \* classifier specification: the chunks of the text
    kVerdict,       \* classifier specification: the verdict returned
    kRuns,          \* two results of communicate with the same error text
    kVerdicts       \* the verdict line of each of the two

harnessVars ==
    <<pc, scen, uri, process, termRequested, stdinClosed, frame, wrem, written,
      stdinPipe, received, errPipe, outPipe, errWritten, outWritten, blocked,
      stderr, stdout, exc, errorsPrinted, verdicts, summary, flushRaises,
      returncode>>
codecVars == <<cIn, cFrame>>
classifierVars == <<kText, kVerdict, kRuns, kVerdicts>>
vars == <<harnessVars, codecVars, classifierVars>>

NoArgs == [method |-> <<>>, params |-> <<>>, id |-> NoId]

HarnessInit ==
    /\ pc = "main"
    /\ scen = 1
    /\ uri = 0
    /\ process = [i \in Scenarios |-> "unbound"]
    /\ termRequested = [i \in Scenarios |-> FALSE]
    /\ stdinClosed = FALSE
    /\ frame = 1
    /\ wrem = 0
    /\ written = <<>>
    /\ stdinPipe = <<>>
    /\ received = <<>>
    /\ errPipe = <<>>
    /\ outPipe = 0
    /\ errWritten = 0
    /\ outWritten = 0
    /\ blocked = None
    /\ stderr = <<>>
    /\ stdout = 0
    /\ exc = "none"
    /\ errorsPrinted = [i \in Scenarios |-> "none"]
    /\ verdicts = [i \in Scenarios |-> <<>>]
    /\ summary = FALSE
    /\ returncode = NoCode

CodecIdle == cIn = NoArgs /\ cFrame = <<>>
RunsIdle == kRuns = <<>> /\ kVerdicts = <<>>
ClassifierIdle == kText = <<>> /\ kVerdict = "none" /\ RunsIdle

Init ==
    /\ HarnessInit
    /\ flushRaises \in BOOLEAN
    /\ CodecIdle
    /\ ClassifierIdle

\* --- __main__ ---
\* the banner, then the first call
MainStart ==
    /\ pc = "main"
    /\ pc' = "call"
    /\ UNCHANGED <<scen, uri, process, termRequested, stdinClosed, frame, wrem,
                   written, stdinPipe, received, errPipe, outPipe, errWritten,
                   outWritten, blocked, stderr, stdout, exc, errorsPrinted,
                   verdicts, summary, flushRaises, returncode,
                   codecVars, classifierVars>>

\* --- test_workspace_recognition ---
\* entry of a call whose captured output lives outside the function and
\* is carried over from the call before
CallKeepingOutput(u) ==
    /\ pc = "call"
    /\ pc' = "popen"
    /\ uri' = u
    /\ stdinClosed' = FALSE
    /\ frame' = 1
    /\ wrem' = 0
    /\ written' = <<>>
    /\ stdinPipe' = <<>>
    /\ received' = <<>>
    /\ errPipe' = <<>>
    /\ outPipe' = 0
    /\ errWritten' = 0
    /\ outWritten' = 0
    /\ blocked' = None
    /\ exc' = "none"
    /\ returncode' = NoCode
    /\ UNCHANGED <<scen, process, termRequested, errorsPrinted, verdicts,
                   summary, flushRaises, stderr, stdout,
                   codecVars, classifierVars>>

\* entry: the locals of the call are fresh, the frames are built
Call(u) ==
    /\ pc = "call"
    /\ pc' = "popen"
    /\ uri' = u
    /\ stdinClosed' = FALSE
    /\ frame' = 1
    /\ wrem' = 0
    /\ written' = <<>>
    /\ stdinPipe' = <<>>
    /\ received' = <<>>
    /\ errPipe' = <<>>
    /\ outPipe' = 0
    /\ errWritten' = 0
    /\ outWritten' = 0
    /\ blocked' = None
    /\ stderr' = <<>>
    /\ stdout' = 0
    /\ exc' = "none"
    /\ returncode' = NoCode
    /\ UNCHANGED <<scen, process, termRequested, errorsPrinted, verdicts,
                   summary, flushRaises,
                   codecVars, classifierVars>>

\* subprocess.Popen returns a handle
PopenOk ==
    /\ pc = "popen"
    /\ process' = [process EXCEPT ![scen] = "running"]
    /\ frame' = 1
    /\ wrem' = Frames(uri)[1].units
    /\ pc' = "send"
    /\ UNCHANGED <<scen, uri, termRequested, stdinClosed, written, stdinPipe,
                   received, errPipe, outPipe, errWritten, outWritten, blocked,
                   stderr, stdout, exc, errorsPrinted, verdicts, summary, flushRaises, returncode,
                   codecVars, classifierVars>>

\* subprocess.Popen raises OSError: `process` is never bound
PopenFail ==
    /\ pc = "popen"
    /\ exc' = "OSError"
    /\ pc' = "except"
    /\ UNCHANGED <<scen, uri, process, termRequested, stdinClosed, frame, wrem,
                   written, stdinPipe, received, errPipe, outPipe, errWritten,
                   outWritten, blocked, stderr, stdout, errorsPrinted, verdicts,
                   summary, flushRaises, returncode,
                   codecVars, classifierVars>>

\* process.stdin.write(msg); process.stdin.flush(): one more unit of the
\* frame enters the pipe; the call blocks while the pipe is full
SendUnit ==
    /\ pc = "send"
    /\ process[scen] = "running"
    /\ Len(stdinPipe) < StdinCap
    /\ stdinPipe' = Append(stdinPipe, UnitOf(Frames(uri)[frame]))
    /\ written' = Append(written, UnitOf(Frames(uri)[frame]))
    /\ IF wrem > 1
       THEN /\ wrem' = wrem - 1
            /\ UNCHANGED <<frame, pc>>
       ELSE IF frame < Len(Frames(uri))
       THEN /\ frame' = frame + 1
            /\ wrem' = Frames(uri)[frame + 1].units
            /\ UNCHANGED pc
       ELSE /\ wrem' = 0
            /\ UNCHANGED frame
            /\ pc' = "close"
    /\ UNCHANGED <<scen, uri, process, termRequested, stdinClosed, received,
                   errPipe, outPipe, errWritten, outWritten, blocked, stderr,
                   stdout, exc, errorsPrinted, verdicts, summary, flushRaises, returncode,
                   codecVars, classifierVars>>

\* the flush finds the read end of the pipe closed
SendBrokenPipe ==
    /\ pc = "send"
    /\ process[scen] = "exited"
    /\ exc' = "BrokenPipeError"
    /\ pc' = "except"
    /\ UNCHANGED <<scen, uri, process, termRequested, stdinClosed, frame, wrem,
                   written, stdinPipe, received, errPipe, outPipe, errWritten,
                   outWritten, blocked, stderr, stdout, errorsPrinted, verdicts,
                   summary, flushRaises, returncode,
                   codecVars, classifierVars>>

\* process.stdin.close()
CloseStdin ==
    /\ pc = "close"
    /\ stdinClosed' = TRUE
    /\ pc' = "communicate"
    /\ UNCHANGED <<scen, uri, process, termRequested, frame, wrem, written,
                   stdinPipe, received, errPipe, outPipe, errWritten, outWritten,
                   blocked, stderr, stdout, exc, errorsPrinted, verdicts, summary, flushRaises, returncode,
                   codecVars, classifierVars>>

\* process.communicate(timeout=5) begins: it flushes process.stdin, which
\* raises ValueError on the closed stream where the library does not guard it
CommunicateStart ==
    /\ pc = "communicate"
    /\ IF flushRaises /\ stdinClosed
       THEN exc' = "ValueError" /\ pc' = "except"
       ELSE exc' = exc /\ pc' = "drain"
    /\ UNCHANGED <<scen, uri, process, termRequested, stdinClosed, frame, wrem,
                   written, stdinPipe, received, errPipe, outPipe, errWritten,
                   outWritten, blocked, stderr, stdout, errorsPrinted, verdicts,
                   summary, flushRaises, returncode,
                   codecVars, classifierVars>>

\* communicate reads what is in the stderr pipe
DrainErr ==
    /\ pc = "drain"
    /\ errPipe # <<>>
    /\ stderr' = Append(stderr, Head(errPipe))
    /\ errPipe' = Tail(errPipe)
    /\ UNCHANGED <<pc, scen, uri, process, termRequested, stdinClosed, frame,
                   wrem, written, stdinPipe, received, outPipe, errWritten,
                   outWritten, blocked, stdout, exc, errorsPrinted, verdicts,
                   summary, flushRaises, returncode,
                   codecVars, classifierVars>>

\* communicate reads what is in the stdout pipe
DrainOut ==
    /\ pc = "drain"
    /\ outPipe > 0
    /\ stdout' = stdout + 1
    /\ outPipe' = outPipe - 1
    /\ UNCHANGED <<pc, scen, uri, process, termRequested, stdinClosed, frame,
                   wrem, written, stdinPipe, received, errPipe, errWritten,
                   outWritten, blocked, stderr, exc, errorsPrinted, verdicts,
                   summary, flushRaises, returncode,
                   codecVars, classifierVars>>

\* communicate returning as soon as both pipes are empty, without waiting
\* for the subprocess
DrainDoneEarly ==
    /\ pc = "drain"
    /\ errPipe = <<>>
    /\ outPipe = 0
    /\ pc' = "classify"
    /\ \E rc \in ExitCodes : returncode' = rc
    /\ UNCHANGED <<scen, uri, process, termRequested, stdinClosed, frame, wrem,
                   written, stdinPipe, received, errPipe, outPipe, errWritten,
                   outWritten, blocked, stderr, stdout, exc, errorsPrinted,
                   verdicts, summary, flushRaises,
                   codecVars, classifierVars>>

\* both streams are at end of file and the subprocess has exited:
\* communicate returns (stdout, stderr)
DrainDone ==
    /\ pc = "drain"
    /\ process[scen] = "exited"
    /\ errPipe = <<>>
    /\ outPipe = 0
    /\ pc' = "classify"
    /\ \E rc \in ExitCodes : returncode' = rc
    /\ UNCHANGED <<scen, uri, process, termRequested, stdinClosed, frame, wrem,
                   written, stdinPipe, received, errPipe, outPipe, errWritten,
                   outWritten, blocked, stderr, stdout, exc, errorsPrinted,
                   verdicts, summary, flushRaises,
                   codecVars, classifierVars>>

\* the five seconds pass while the subprocess is still running:
\* communicate raises TimeoutExpired and leaves the subprocess alone
DrainTimeout ==
    /\ pc = "drain"
    /\ process[scen] = "running"
    /\ exc' = "TimeoutExpired"
    /\ pc' = "except"
    /\ UNCHANGED <<scen, uri, process, termRequested, stdinClosed, frame, wrem,
                   written, stdinPipe, received, errPipe, outPipe, errWritten,
                   outWritten, blocked, stderr, stdout, errorsPrinted, verdicts,
                   summary, flushRaises, returncode,
                   codecVars, classifierVars>>

\* the STDOUT/STDERR lines and the verdict line
Classify ==
    /\ pc = "classify"
    /\ verdicts' = [verdicts EXCEPT ![scen] = Append(@, verdict_line(OutText(stdout), stderr, returncode))]
    /\ pc' = "finally"
    /\ UNCHANGED <<scen, uri, process, termRequested, stdinClosed, frame, wrem,
                   written, stdinPipe, received, errPipe, outPipe, errWritten,
                   outWritten, blocked, stderr, stdout, exc, errorsPrinted,
                   summary, flushRaises, returncode,
                   codecVars, classifierVars>>

\* except Exception as e: print(f"Error: {e}")
Except ==
    /\ pc = "except"
    /\ errorsPrinted' = [errorsPrinted EXCEPT ![scen] = exc]
    /\ exc' = "none"
    /\ pc' = "finally"
    /\ UNCHANGED <<scen, uri, process, termRequested, stdinClosed, frame, wrem,
                   written, stdinPipe, received, errPipe, outPipe, errWritten,
                   outWritten, blocked, stderr, stdout, verdicts, summary, flushRaises, returncode,
                   codecVars, classifierVars>>

\* finally: if process.poll() is None: process.terminate()
\* With `process` unbound the test itself raises UnboundLocalError, which
\* leaves the function and ends the script.
Finally ==
    /\ pc = "finally"
    /\ IF process[scen] = "unbound"
       THEN /\ exc' = "UnboundLocalError"
            /\ pc' = "crashed"
            /\ UNCHANGED termRequested
       ELSE /\ termRequested' =
                  [termRequested EXCEPT ![scen] = (process[scen] = "running")]
            /\ pc' = "returned"
            /\ UNCHANGED exc
    /\ UNCHANGED <<scen, uri, process, stdinClosed, frame, wrem, written,
                   stdinPipe, received, errPipe, outPipe, errWritten, outWritten,
                   blocked, stderr, stdout, errorsPrinted, verdicts, summary, flushRaises, returncode,
                   codecVars, classifierVars>>

\* --- __main__, continued ---
\* the next call
NextScenario ==
    /\ pc = "returned"
    /\ scen < NumScenarios
    /\ scen' = scen + 1
    /\ pc' = "call"
    /\ UNCHANGED <<uri, process, termRequested, stdinClosed, frame, wrem,
                   written, stdinPipe, received, errPipe, outPipe, errWritten,
                   outWritten, blocked, stderr, stdout, exc, errorsPrinted,
                   verdicts, summary, flushRaises, returncode,
                   codecVars, classifierVars>>

\* the closing banner
Summary ==
    /\ pc = "returned"
    /\ scen = NumScenarios
    /\ summary' = TRUE
    /\ pc' = "done"
    /\ UNCHANGED <<scen, uri, process, termRequested, stdinClosed, frame, wrem,
                   written, stdinPipe, received, errPipe, outPipe, errWritten,
                   outWritten, blocked, stderr, stdout, exc, errorsPrinted,
                   verdicts, flushRaises, returncode,
                   codecVars, classifierVars>>

(***************************************************************************)
(* The collaborator subprocess.                                            *)
(***************************************************************************)
\* the pipes of the current call exist from Popen until the call returns
InSession == pc \in {"send", "close", "communicate", "drain", "classify", "except", "finally"}

Current(i) == i = scen /\ InSession

\* the subprocess reads one unit of its input
ChildRead ==
    /\ InSession
    /\ process[scen] = "running"
    /\ blocked = None
    /\ stdinPipe # <<>>
    /\ received' = Append(received, Head(stdinPipe))
    /\ stdinPipe' = Tail(stdinPipe)
    /\ UNCHANGED <<pc, scen, uri, process, termRequested, stdinClosed, frame,
                   wrem, written, errPipe, outPipe, errWritten, outWritten,
                   blocked, stderr, stdout, exc, errorsPrinted, verdicts,
                   summary, flushRaises, returncode,
                   codecVars, classifierVars>>

\* the subprocess writes chunk c to its error stream, and blocks in the
\* write when the pipe is full
ChildWriteErr(c) ==
    /\ InSession
    /\ process[scen] = "running"
    /\ blocked = None
    /\ errWritten < MaxErrChunks
    /\ errWritten' = errWritten + 1
    /\ IF Len(errPipe) < ErrCap
       THEN errPipe' = Append(errPipe, c) /\ UNCHANGED blocked
       ELSE blocked' = [stream |-> "stderr", chunk |-> c] /\ UNCHANGED errPipe
    /\ UNCHANGED <<pc, scen, uri, process, termRequested, stdinClosed, frame,
                   wrem, written, stdinPipe, received, outPipe, outWritten,
                   stderr, stdout, exc, errorsPrinted, verdicts, summary, flushRaises, returncode,
                   codecVars, classifierVars>>

\* the subprocess writes a chunk to its output stream, likewise
ChildWriteOut ==
    /\ InSession
    /\ process[scen] = "running"
    /\ blocked = None
    /\ outWritten < MaxOutChunks
    /\ outWritten' = outWritten + 1
    /\ IF outPipe < OutCap
       THEN outPipe' = outPipe + 1 /\ UNCHANGED blocked
       ELSE blocked' = [stream |-> "stdout", chunk |-> 0] /\ UNCHANGED outPipe
    /\ UNCHANGED <<pc, scen, uri, process, termRequested, stdinClosed, frame,
                   wrem, written, stdinPipe, received, errPipe, errWritten,
                   stderr, stdout, exc, errorsPrinted, verdicts, summary, flushRaises, returncode,
                   codecVars, classifierVars>>

\* room appears in the pipe and the blocked write completes
ChildUnblock ==
    /\ InSession
    /\ process[scen] = "running"
    /\ blocked # None
    /\ IF blocked.stream = "stderr"
       THEN /\ Len(errPipe) < ErrCap
            /\ errPipe' = Append(errPipe, blocked.chunk)
            /\ UNCHANGED outPipe
       ELSE /\ outPipe < OutCap
            /\ outPipe' = outPipe + 1
            /\ UNCHANGED errPipe
    /\ blocked' = None
    /\ UNCHANGED <<pc, scen, uri, process, termRequested, stdinClosed, frame,
                   wrem, written, stdinPipe, received, errWritten, outWritten,
                   stderr, stdout, exc, errorsPrinted, verdicts, summary, flushRaises, returncode,
                   codecVars, classifierVars>>

\* subprocess i exits: of its own accord when it is not blocked in a write,
\* or on the signal of terminate().  What it had not read of its input is
\* lost; what it wrote stays readable.
ChildExit(i) ==
    /\ process[i] = "running"
    /\ Current(i) => (blocked = None \/ termRequested[i])
    /\ process' = [process EXCEPT ![i] = "exited"]
    /\ IF Current(i)
       THEN stdinPipe' = <<>> /\ blocked' = None
       ELSE UNCHANGED <<stdinPipe, blocked>>
    /\ UNCHANGED <<pc, scen, uri, termRequested, stdinClosed, frame, wrem,
                   written, received, errPipe, outPipe, errWritten, outWritten,
                   stderr, stdout, exc, errorsPrinted, verdicts, summary, flushRaises, returncode,
                   codecVars, classifierVars>>

Next ==
    \/ MainStart
    \/ \E u \in 0..MaxUriUnits : Call(u)
    \/ PopenOk
    \/ PopenFail
    \/ SendUnit
    \/ SendBrokenPipe
    \/ CloseStdin
    \/ CommunicateStart
    \/ DrainErr
    \/ DrainOut
    \/ DrainDone
    \/ DrainTimeout
    \/ Classify
    \/ Except
    \/ Finally
    \/ NextScenario
    \/ Summary
    \/ ChildRead
    \/ \E c \in ErrVocab : ChildWriteErr(c)
    \/ ChildWriteOut
    \/ ChildUnblock
    \/ \E i \in Scenarios : ChildExit(i)

Spec == Init /\ [][Next]_vars

(***************************************************************************)
(* Specification of the codec alone: arguments from bounded sets, one      *)
(* call of create_lsp_message.                                             *)
(***************************************************************************)
SeqsUpTo(S, n) == UNION {[1..k -> S] : k \in 0..n}

\* the method names the harness uses
MethodText ==
    [m \in {"initialize", "initialized", "textDocument/didOpen"} |->
       CASE m = "initialize" -> <<105, 110, 105, 116, 105, 97, 108, 105, 122, 101>>
         [] m = "initialized" -> <<105, 110, 105, 116, 105, 97, 108, 105, 122, 101, 100>>
         [] OTHER -> <<116, 101, 120, 116, 68, 111, 99, 117, 109, 101, 110, 116, 47,
                       100, 105, 100, 79, 112, 101, 110>>]

\* a, ", \, line feed, DEL, e-acute, euro sign, an emoji beyond the BMP,
\* and the two surrogate code points U+D83D and U+DE00, which a Python str
\* can hold
Alphabet == {97, 34, 92, 10, 127, 233, 8364, 128512, 55357, 56832}

KEY_URI == <<117, 114, 105>>

\* {} and {"uri": s}
ParamsSet == {<<>>} \cup {<< <<KEY_URI, s>> >> : s \in SeqsUpTo(Alphabet, MaxStrLen)}

IdSet == {NoId, 0, 1, 10}

CodecInit ==
    /\ HarnessInit
    /\ flushRaises = FALSE
    /\ ClassifierIdle
    /\ cIn \in [method : {MethodText[m] : m \in DOMAIN MethodText},
                params : ParamsSet, id : IdSet]
    /\ cFrame = <<>>

Encode ==
    /\ cFrame = <<>>
    /\ cFrame' = create_lsp_message(cIn.method, cIn.params, cIn.id)
    /\ UNCHANGED <<cIn, harnessVars, classifierVars>>

CodecNext == Encode

SpecCodec == CodecInit /\ [][CodecNext]_vars

(***************************************************************************)
(* Specification of the classifier alone: a text from a bounded set, one   *)
(* evaluation of the if / elif / else.                                     *)
(***************************************************************************)
ClassifierInit ==
    /\ HarnessInit
    /\ flushRaises = FALSE
    /\ CodecIdle
    /\ kText \in SeqsUpTo(AllChunks, MaxTextChunks)
    /\ kVerdict = "none"
    /\ RunsIdle

ClassifyText ==
    /\ kVerdict = "none"
    /\ kVerdict' = classify(TextOf(kText))
    /\ UNCHANGED <<kText, kRuns, kVerdicts, harnessVars, codecVars>>

ClassifierNext == ClassifyText

SpecClassifier == ClassifierInit /\ [][ClassifierNext]_vars

(***************************************************************************)
(* Specification of the report alone: two results of communicate that      *)
(* hold the same error text, with any output text and exit code each, and  *)
(* one evaluation of the verdict line for both.                            *)
(***************************************************************************)
OutTexts == {<<>>, <<2>>, <<4>>}

RunsInit ==
    /\ HarnessInit
    /\ flushRaises = FALSE
    /\ CodecIdle
    /\ kText = <<>>
    /\ kVerdict = "none"
    /\ \E err \in SeqsUpTo(AllChunks, MaxTextChunks) :
          kRuns \in [1..2 -> [stdout : OutTexts, stderr : {err}, returncode : ExitCodes]]
    /\ kVerdicts = <<>>

ReportRuns ==
    /\ kVerdicts = <<>>
    /\ kVerdicts' = [r \in 1..2 |->
                       verdict_line(kRuns[r].stdout, kRuns[r].stderr, kRuns[r].returncode)]
    /\ UNCHANGED <<kText, kVerdict, kRuns, harnessVars, codecVars>>

RunsNext == ReportRuns

SpecRuns == RunsInit /\ [][RunsNext]_vars

(***************************************************************************)
(* Properties.                                                             *)
(***************************************************************************)
\* the call for scenario i is over: it returned to __main__
Ended(i) == scen > i \/ (scen = i /\ pc \in {"returned", "done"})

\* the call for the current scenario is over
CurrentEnded == pc \in {"returned", "done"}

\* everything the current subprocess has written to its error stream
ErrLog == stderr \o errPipe \o (IF blocked.stream = "stderr" THEN <<blocked.chunk>> ELSE <<>>)

\* the current subprocess has read all three frames
ReadAll == {received[k].method : k \in 1..Len(received)} = DOMAIN MethodText

\* C1: when the error text captured from the collaborator is
\* "no go.mod found", the verdict line the call prints is not-recognized.
C1_NoGoModFoundNotRecognized ==
    (verdicts[scen] # <<>> /\ TextOf(stderr) = Chunk[1])
    => verdicts[scen] = <<"not-recognized">>

\* C2: when the subprocess is still running at the end of the drain, the
\* scenario ends with the verdict inconclusive and, once the call has
\* returned, the subprocess is no longer running.
C2_TimeoutInconclusiveAndTerminated ==
    \A i \in Scenarios :
        (Ended(i) /\ termRequested[i])
        => (verdicts[i] = <<"inconclusive">> /\ process[i] = "exited")

\* C3: a scenario whose Popen failed does not end the run: the exception
\* never leaves test_workspace_recognition.
C3_SpawnFailureIsLocal ==
    \A i \in Scenarios : errorsPrinted[i] = "OSError" => pc # "crashed"

\* C4: every scenario that is over has exactly one verdict line, and the
\* verdict of a scenario that failed is inconclusive.
C4_EveryPathHasVerdict ==
    \A i \in Scenarios :
        (Ended(i) \/ (i = scen /\ pc = "crashed"))
        => /\ Len(verdicts[i]) = 1
           /\ errorsPrinted[i] # "none" => verdicts[i] = <<"inconclusive">>

\* C5: no two subprocesses are running at the same time.
C5_OneSessionAtATime ==
    \A i, j \in Scenarios : (i # j) => ~(process[i] = "running" /\ process[j] = "running")

\* C6: when a call that launched a subprocess is over, the input stream has
\* been closed and the subprocess is not running.
C6_SessionReleased ==
    (CurrentEnded /\ process[scen] # "unbound")
    => (stdinClosed /\ process[scen] = "exited")

\* C7: the harness is never blocked in a write to a full stdin pipe while
\* the subprocess is blocked in a write to a full output or error pipe.
C7_NoPipeDeadlock ==
    ~(/\ pc = "send"
      /\ process[scen] = "running"
      /\ Len(stdinPipe) = StdinCap
      /\ blocked # None)

\* C8: the Content-Length header of a frame is the number of bytes of the
\* body after the blank line.
C8_ContentLengthIsByteLength ==
    cFrame # <<>> => DeclaredLength(cFrame) = ByteLen(FrameBody(cFrame))

\* C8 witness: a frame was built from params holding multi-byte text
C8_Witness ==
    /\ cFrame # <<>>
    /\ cIn.params # <<>>
    /\ \E k \in 1..Len(cIn.params[1][2]) : cIn.params[1][2][k] > 127

\* position of a method in the conversation
Rank(m) == CASE m = "initialize" -> 1 [] m = "initialized" -> 2 [] OTHER -> 3

Ordered(us) ==
    \A j, k \in 1..Len(us) : j < k => Rank(us[j].method) <= Rank(us[k].method)

IsPrefix(a, b) == Len(a) <= Len(b) /\ SubSeq(b, 1, Len(a)) = a

\* C9: the subprocess reads initialize (id 1), initialized, didOpen (no
\* id) in that order and as written; the half-close comes after all three
\* were written, nothing is written after it, and the drain starts after it.
C9_SendOrder ==
    /\ [](/\ Ordered(received \o stdinPipe)
          /\ IsPrefix(received, written)
          /\ \A k \in 1..Len(written) :
                written[k].id = (IF written[k].method = "initialize" THEN 1 ELSE NoId)
          /\ stdinClosed =>
                /\ {written[k].method : k \in 1..Len(written)} = DOMAIN MethodText
                /\ pc # "send"
          /\ pc \in {"communicate", "drain", "classify"} => stdinClosed)
    /\ [][(stdinClosed /\ stdinClosed') => written' = written]_vars

\* C9 witness: the drain runs after the half-close and the subprocess has
\* read all three frames
C9_Witness == pc = "drain" /\ stdinClosed /\ ReadAll /\ Len(received) = Len(written)

\* chunks that hold the marker of the first check / of the second check
FoundChunks == {1, 2, 6}
NotFoundChunks == {1, 3, 5}

HasFound(cs) == \E j \in 1..Len(cs) : cs[j] \in FoundChunks

HasNotFound(cs) ==
    \/ \E j \in 1..Len(cs) : cs[j] \in NotFoundChunks
    \/ \E j \in 1..(Len(cs) - 1) : cs[j] = 7 /\ cs[j + 1] = 8

\* C10: a text that holds both markers, in either order and in any letter
\* case, is classified recognized.
C10_BothMarkersRecognized ==
    (kVerdict # "none" /\ HasFound(kText) /\ HasNotFound(kText))
    => kVerdict = "recognized"

\* C10 witness: "NOT FOUND" comes before "Go.Mod"
C10_Witness == kVerdict = "recognized" /\ kText = <<5, 6>>

\* the state at the entry of a call owes nothing to the calls before it
FreshCall ==
    /\ process[scen] = "unbound"
    /\ verdicts[scen] = <<>>
    /\ errorsPrinted[scen] = "none"
    /\ exc = "none"
    /\ ~stdinClosed
    /\ written = <<>> /\ stdinPipe = <<>> /\ received = <<>>
    /\ errPipe = <<>> /\ outPipe = 0 /\ errWritten = 0 /\ outWritten = 0
    /\ blocked = None
    /\ stderr = <<>> /\ stdout = 0

LocalFailures == {"BrokenPipeError", "TimeoutExpired"}

\* C11: after a write to a closed pipe or a drain timeout the call returns
\* normally, __main__ makes the next call, and that call starts from the
\* same fresh state, with a subprocess of its own, as a first call does.
C11_PipeClosedAndTimeoutAreLocal ==
    /\ [](/\ \A i \in Scenarios :
                (scen = i /\ errorsPrinted[i] \in LocalFailures) => pc # "crashed"
          /\ pc = "popen" => FreshCall)
    /\ [][/\ (pc = "finally" /\ errorsPrinted[scen] \in LocalFailures)
             => pc' \in {"finally", "returned"}
          /\ (pc = "returned" /\ scen < NumScenarios /\ pc' # pc)
             => (pc' = "call" /\ scen' = scen + 1)]_vars

\* C11 witness: the first scenario failed that way and the second one ran
\* its own subprocess to a verdict
C11_Witness ==
    /\ errorsPrinted[1] \in LocalFailures
    /\ scen = 2
    /\ process[2] = "exited"
    /\ verdicts[2] # <<>>

\* C12: a collaborator that writes nothing to either stream and exits by
\* itself, at whatever point of the conversation, gets the verdict
\* inconclusive.
C12_SilentExitInconclusive ==
    (/\ CurrentEnded
     /\ process[scen] = "exited"
     /\ ~termRequested[scen]
     /\ errorsPrinted[scen] # "TimeoutExpired"
     /\ errWritten = 0
     /\ outWritten = 0)
    => verdicts[scen] = <<"inconclusive">>

\* C13: two runs that captured the same error text get the same verdict,
\* whatever each wrote to its output stream and whatever its exit code.
C13_VerdictFromErrorTextOnly ==
    (kVerdicts # <<>> /\ kRuns[1].stderr = kRuns[2].stderr)
    => kVerdicts[1] = kVerdicts[2]

\* C13 witness: the same error text, one run with "using go.mod at
\* /workspace" on its output and exit code 0, the other with no output and
\* exit code 1
C13_Witness ==
    /\ kVerdicts # <<>>
    /\ kRuns[1].stderr = <<3>> /\ kRuns[2].stderr = <<3>>
    /\ kRuns[1].stdout = <<2>> /\ kRuns[1].returncode = 0
    /\ kRuns[2].stdout = <<>> /\ kRuns[2].returncode = 1
    /\ kVerdicts = <<"not-recognized", "not-recognized">>

K_JSONRPC == <<106, 115, 111, 110, 114, 112, 99>>
K_METHOD == <<109, 101, 116, 104, 111, 100>>
K_PARAMS == <<112, 97, 114, 97, 109, 115>>
K_ID == <<105, 100>>
V_2_0 == <<50, 46, 48>>

Keys(members) == {members[k][1] : k \in 1..Len(members)}

Field(members, key) == members[CHOOSE k \in 1..Len(members) : members[k][1] = key][2]

\* the decoded params are the pairs given, in order
SameParams(v, params) ==
    /\ v.kind = "obj"
    /\ Len(v.val) = Len(params)
    /\ \A k \in 1..Len(params) :
          /\ v.val[k][1] = params[k][1]
          /\ v.val[k][2].kind = "str"
          /\ v.val[k][2].val = params[k][2]

\* the decoded body of cFrame gives back cIn
RoundTrips ==
    LET m == json_loads(FrameBody(cFrame))
    IN  /\ m.kind = "obj"
        /\ m.next = Len(FrameBody(cFrame)) + 1
        /\ Keys(m.val) \subseteq {K_JSONRPC, K_METHOD, K_PARAMS, K_ID}
        /\ Cardinality(Keys(m.val)) = Len(m.val)
        /\ {K_JSONRPC, K_METHOD, K_PARAMS} \subseteq Keys(m.val)
        /\ Field(m.val, K_JSONRPC).kind = "str"
        /\ Field(m.val, K_JSONRPC).val = V_2_0
        /\ Field(m.val, K_METHOD).kind = "str"
        /\ Field(m.val, K_METHOD).val = cIn.method
        /\ SameParams(Field(m.val, K_PARAMS), cIn.params)
        /\ (K_ID \in Keys(m.val)) <=> (cIn.id # NoId)
        /\ (K_ID \in Keys(m.val)) =>
              /\ Field(m.val, K_ID).kind = "int"
              /\ Field(m.val, K_ID).val = cIn.id

\* a string in which a high surrogate is directly followed by a low one
HasSurrogatePair(str) ==
    \E k \in 1..(Len(str) - 1) : IsHighSurrogate(str[k]) /\ IsLowSurrogate(str[k + 1])

NoSurrogatePairs(args) ==
    /\ ~HasSurrogatePair(args.method)
    /\ \A k \in 1..Len(args.params) :
          ~HasSurrogatePair(args.params[k][1]) /\ ~HasSurrogatePair(args.params[k][2])

\* C14 as stated: decoding the body of any frame gives back method, params
\* and id, with id present exactly when it was supplied and no other field.
C14_RoundTripAnyText ==
    cFrame # <<>> => RoundTrips

\* C14 amended: the same for every message none of whose strings holds a
\* high surrogate directly followed by a low surrogate.
C14_RoundTrip ==
    (cFrame # <<>> /\ NoSurrogatePairs(cIn)) => RoundTrips

\* C14 witness: a request with id 0 and an emoji in its params was decoded
C14_Witness ==
    /\ cFrame # <<>>
    /\ cIn.id = 0
    /\ cIn.params # <<>>
    /\ cIn.params[1][2] = <<128512, 34>>
    /\ RoundTrips

Verdicts == {"recognized", "not-recognized", "inconclusive"}

\* C15: for any captured error text, the empty text included, the classifier
\* returns exactly one of recognized, not-recognized, inconclusive.
C15_ClassifierTotal ==
    kVerdict # "none" => kVerdict \in Verdicts

\* C15 witness: the empty text was classified
C15_Witness == kText = <<>> /\ kVerdict = "inconclusive"

\* chunks whose text holds "go.mod" / "not found" / "no go.mod" in some
\* letter case; "not " directly followed by "found" holds "not found" too
GoModChunks == {1, 2, 6}
NotFoundTextChunks == {3, 5}
NoGoModChunks == {1}

HasGoMod(cs) == \E j \in 1..Len(cs) : cs[j] \in GoModChunks

HasNotFoundText(cs) ==
    \/ \E j \in 1..Len(cs) : cs[j] \in NotFoundTextChunks
    \/ \E j \in 1..(Len(cs) - 1) : cs[j] = 7 /\ cs[j + 1] = 8

HasNoGoMod(cs) == \E j \in 1..Len(cs) : cs[j] \in NoGoModChunks

\* C16: the verdict is not-recognized exactly when the text holds
\* "not found" in some letter case and does not hold "go.mod"; a text that
\* holds "no go.mod" is classified recognized, so that alternative of the
\* second check decides nothing.
C16_NotRecognizedIffNotFoundOnly ==
    kVerdict # "none" =>
        /\ (kVerdict = "not-recognized") <=> (HasNotFoundText(kText) /\ ~HasGoMod(kText))
        /\ HasNoGoMod(kText) => kVerdict = "recognized"

\* C16 witness: "starting" then "NOT FOUND" was classified not-recognized
C16_Witness == kText = <<4, 5>> /\ kVerdict = "not-recognized"

\* C17: a scenario prints at most one verdict, and the scenario that has
\* printed one has a subprocess that exited before the drain returned, no
\* timeout or other error, and a captured error text that is everything the
\* subprocess wrote to its error stream.
C17_VerdictOnceAfterExit ==
    /\ \A i \in Scenarios :
          /\ Len(verdicts[i]) <= 1
          /\ verdicts[i] # <<>> =>
                /\ process[i] = "exited"
                /\ ~termRequested[i]
                /\ errorsPrinted[i] = "none"
    /\ verdicts[scen] # <<>> =>
          /\ exc = "none"
          /\ ErrLog = stderr
          /\ Len(stderr) = errWritten
          /\ stdout = outWritten

\* C17 witness: the subprocess wrote two chunks to its error stream and
\* exited, and the verdict was printed from both
C17_Witness ==
    /\ verdicts[scen] # <<>>
    /\ process[scen] = "exited"
    /\ Len(stderr) = 2
    /\ errWritten = 2

====
